---- MODULE Spec2Model ----
(***************************************************************************)
(* RSI computation and signal interpretation of the om1-runtime            *)
(* (utils/rsi.py): calculate_rsi and interpret_rsi.                         *)
(*                                                                         *)
(* Numbers.  The source computes in IEEE-754 binary64 (numpy dtype=float). *)
(* A number is a record [n, d]: the rational n/d in lowest terms with      *)
(* d > 0, or one of the IEEE specials NaN, +inf, -inf (d = 0).  Every       *)
(* arithmetic step of the source is an exact rational operation followed   *)
(* by fl, the rounding to the nearest number with a prec-bit significand   *)
(* (ties to even, exponent unbounded).  prec is fixed per run: 0 stands    *)
(* for an unbounded significand (the real arithmetic the specification is  *)
(* written in), SigBits for a short one, so that the rounding of binary64  *)
(* (53 bits) is met with small numbers.                                    *)
(***************************************************************************)
EXTENDS Integers, Sequences, FiniteSets, TLC

VARIABLES
    entry,       \* which function of utils/rsi.py the caller entered
    arg_prices,  \* the caller's list: numbers or candle records
    period,      \* the period argument
    prec,        \* significand bits of the arithmetic, 0 = unbounded
    pc,          \* position in the call
    prices,      \* the local name prices after lines 23-24
    gains,       \* line 36
    losses,      \* line 37
    avg_gain,    \* lines 40, 45
    avg_loss,    \* lines 41, 46
    i,           \* loop variable of line 44
    result,      \* value returned by calculate_rsi
    exc,         \* exception that left calculate_rsi
    rsi_arg,     \* argument of interpret_rsi
    label        \* value returned by interpret_rsi

\* Several callers of utils/rsi.py at once.
VARIABLES
    heap,        \* the list objects the callers own
    plan,        \* per caller: the list it passes, the period, how often
    frames,      \* per caller: the activation of calculate_rsi it is in
    log          \* the finished calls, in the order they returned

\* BitcoinPriceInput.fetch (inputs/bitcoin_price/plugin.py) and the
\* connector it uses (connectors/binance_connector.py).
VARIABLES
    rsi_period,  \* self.rsi_period
    fpc,         \* position in fetch and in get_current_price
    queried,     \* the price sources queried so far, with their outcome
    price_data,  \* plugin.py line 58
    historical,  \* plugin.py line 61
    fetch_rsi,   \* the local rsi of fetch, plugin.py lines 69, 71
    rsi_signal,  \* plugin.py line 74
    payload,     \* the dict fetch returns
    fetch_exc    \* exception that left fetch

\* BitcoinAdvisorAgent (agent/runtime.py): the agent object, the thread in
\* run(), another thread calling stop().
VARIABLES
    inputs,        \* self.inputs: per input name a plugin or None
    llm,           \* self.llm: a connector or None
    running,       \* self.running
    cycle_count,   \* self.cycle_count
    last_signal,   \* self.last_signal
    apc,           \* position of the thread that calls run()
    pending,       \* inputs the loop of _collect_inputs has still to visit
    input_data,    \* the dict _collect_inputs builds
    asked,         \* llm.generate was called in this cycle
    reply,         \* how the LLM request of this cycle ended
    response,      \* the text llm.generate returned
    signal,        \* the signal _generate_signal returned
    stop_called,   \* stop() has been called
    started_after_stop  \* cycles run() started after stop() had returned

rsi_vars == <<entry, arg_prices, period, pc, prices, gains, losses,
              avg_gain, avg_loss, i, result, exc, rsi_arg, label>>
caller_vars == <<heap, plan, frames, log>>
fetch_vars == <<rsi_period, fpc, queried, price_data, historical, fetch_rsi,
                rsi_signal, payload, fetch_exc>>

\* _execute_actions (agent/runtime.py lines 247-271) and what run_cycle did.
VARIABLES
    actions,       \* self.actions: per action name a plugin or None
    todo,          \* actions the loop of _execute_actions has still to visit
    context,       \* the context dict of lines 255-260
    executed,      \* the execute calls of this cycle: name, context, outcome
    count_before   \* cycle_count when run_cycle was entered

action_vars == <<actions, todo, context, executed, count_before>>

agent_vars == <<inputs, llm, running, cycle_count, last_signal, apc, pending,
                input_data, asked, reply, response, signal, stop_called,
                started_after_stop, action_vars>>

\* What the actions of one component leave alone.
not_rsi == <<caller_vars, fetch_vars, agent_vars>>
not_callers == <<rsi_vars, prec, fetch_vars, agent_vars>>
not_fetch == <<caller_vars, agent_vars>>
not_agent == <<rsi_vars, prec, caller_vars, fetch_vars>>

vars == <<entry, arg_prices, period, prec, pc, prices, gains, losses,
          avg_gain, avg_loss, i, result, exc, rsi_arg, label,
          heap, plan, frames, log,
          rsi_period, fpc, queried, price_data, historical, fetch_rsi,
          rsi_signal, payload, fetch_exc,
          inputs, llm, running, cycle_count, last_signal, apc, pending,
          input_data, asked, reply, response, signal, stop_called,
          started_after_stop,
          actions, todo, context, executed, count_before>>

(***************************************************************************)
(* Bounds of the model.                                                    *)
(***************************************************************************)
MaxLen == 4          \* longest enumerated price list
MaxPrice == 2        \* enumerated prices are 0..MaxPrice
MaxPeriod == 3       \* enumerated periods go up to MaxPeriod
MaxNegPeriod == 1    \* ... and down to -MaxNegPeriod
SigBits == 5         \* significand bits of the short floating point

DefaultPeriod == 14  \* period: int = 14

(***************************************************************************)
(* Rational numbers and IEEE specials.                                     *)
(***************************************************************************)
Abs(x) == IF x < 0 THEN -x ELSE x

RECURSIVE Gcd(_, _)
Gcd(a, b) == IF b = 0 THEN a ELSE Gcd(b, a % b)

RECURSIVE Pow2(_)
Pow2(k) == IF k = 0 THEN 1 ELSE 2 * Pow2(k - 1)

Rat(n, d) ==
    LET s == IF d < 0 THEN -1 ELSE 1
        g == Gcd(Abs(n), Abs(d))
    IN  [n |-> (s * n) \div g, d |-> (s * d) \div g]

NaN == [n |-> 0, d |-> 0]
PosInf == [n |-> 1, d |-> 0]
NegInf == [n |-> -1, d |-> 0]
None == [n |-> 0, d |-> -1]

IsNum(x) == x.d > 0
IsNaN(x) == x = NaN
Sign(x) == IF x.n > 0 THEN 1 ELSE IF x.n < 0 THEN -1 ELSE 0
Inf(s) == IF s > 0 THEN PosInf ELSE NegInf
Zero == [n |-> 0, d |-> 1]
IsZero(x) == IsNum(x) /\ x.n = 0

RNeg(x) == [n |-> -x.n, d |-> x.d]

RAdd(x, y) ==
    IF IsNum(x) /\ IsNum(y) THEN Rat(x.n * y.d + y.n * x.d, x.d * y.d)
    ELSE IF IsNaN(x) \/ IsNaN(y) THEN NaN
    ELSE IF ~IsNum(x) /\ ~IsNum(y) THEN (IF x = y THEN x ELSE NaN)
    ELSE IF IsNum(x) THEN y ELSE x

RSub(x, y) == RAdd(x, RNeg(y))

RMul(x, y) ==
    IF IsNum(x) /\ IsNum(y) THEN Rat(x.n * y.n, x.d * y.d)
    ELSE IF IsNaN(x) \/ IsNaN(y) THEN NaN
    ELSE IF IsZero(x) \/ IsZero(y) THEN NaN
    ELSE Inf(Sign(x) * Sign(y))

\* Division; a zero divisor is +0.0 wherever the source divides.
RDiv(x, y) ==
    IF IsNaN(x) \/ IsNaN(y) THEN NaN
    ELSE IF IsNum(x) /\ IsNum(y)
         THEN IF y.n # 0 THEN Rat(x.n * y.d, x.d * y.n)
              ELSE IF x.n = 0 THEN NaN ELSE Inf(Sign(x))
    ELSE IF ~IsNum(x) /\ ~IsNum(y) THEN NaN
    ELSE IF IsNum(x) THEN Zero
    ELSE Inf(Sign(x) * (IF y.n < 0 THEN -1 ELSE 1))

\* x < y as Python compares floats: false as soon as one side is NaN.
Lt(x, y) ==
    IF IsNaN(x) \/ IsNaN(y) THEN FALSE
    ELSE IF IsNum(x) /\ IsNum(y) THEN x.n * y.d < y.n * x.d
    ELSE IF x = y THEN FALSE
    ELSE x = NegInf \/ y = PosInf

Le(x, y) == Lt(x, y) \/ (~IsNaN(x) /\ x = y)

(***************************************************************************)
(* Rounding to a prec-bit significand, nearest, ties to even.              *)
(***************************************************************************)
RECURSIVE RoundPos(_, _, _, _, _)
RoundPos(n, d, up, dn, p) ==
    IF n < d * Pow2(p - 1) THEN RoundPos(2 * n, d, 2 * up, dn, p)
    ELSE IF n >= d * Pow2(p) THEN RoundPos(n, 2 * d, up, 2 * dn, p)
    ELSE LET q == n \div d
             r == n % d
             m == IF 2 * r < d THEN q
                  ELSE IF 2 * r > d THEN q + 1
                  ELSE IF q % 2 = 0 THEN q ELSE q + 1
         IN  Rat(m * dn, up)

fl(x, p) ==
    IF p = 0 \/ ~IsNum(x) \/ x.n = 0 THEN x
    ELSE IF x.n > 0 THEN RoundPos(x.n, x.d, 1, 1, p)
    ELSE RNeg(RoundPos(-x.n, x.d, 1, 1, p))

FAdd(x, y, p) == fl(RAdd(x, y), p)
FSub(x, y, p) == fl(RSub(x, y), p)
FMul(x, y, p) == fl(RMul(x, y), p)
FDiv(x, y, p) == fl(RDiv(x, y), p)

Num(k) == Rat(k, 1)

(***************************************************************************)
(* utils/rsi.py, calculate_rsi: the pieces of the function body.           *)
(***************************************************************************)
\* Mutant of ExtractClose: the 'open' of the candles projected.
ExtractOpen(lst) ==
    IF lst[1].dict THEN [k \in 1..Len(lst) |-> lst[k].open]
    ELSE [k \in 1..Len(lst) |-> lst[k].val]

\* lines 23-24: the closes of a candle list, the list itself otherwise;
\* only the first element is looked at.
ExtractClose(lst) ==
    IF lst[1].dict THEN [k \in 1..Len(lst) |-> lst[k].close]
    ELSE [k \in 1..Len(lst) |-> lst[k].val]

\* line 26: len(prices) < period + 1
InsufficientData(n, p) == n < p + 1

\* line 30: np.array(prices, dtype=float)
ToFloatArray(s, pr) == [k \in 1..Len(s) |-> fl(s[k], pr)]

\* line 33: np.diff(prices)
NpDiff(a, pr) == [k \in 1..(Len(a) - 1) |-> FSub(a[k + 1], a[k], pr)]

\* Mutant of GainsOf: np.abs(deltas) taken for the gains.
GainsOfAbs(deltas) ==
    [k \in 1..Len(deltas) |-> IF Lt(deltas[k], Zero) THEN RNeg(deltas[k]) ELSE deltas[k]]

\* line 36: np.where(deltas > 0, deltas, 0)
GainsOf(deltas) ==
    [k \in 1..Len(deltas) |-> IF Lt(Zero, deltas[k]) THEN deltas[k] ELSE Zero]

\* Mutant of LossesOf: the sign of the losses kept.
LossesOfSigned(deltas) ==
    [k \in 1..Len(deltas) |-> IF Lt(deltas[k], Zero) THEN deltas[k] ELSE Zero]

\* Mutant of LossesOf: np.abs(deltas) taken for the losses.
LossesOfAbs(deltas) ==
    [k \in 1..Len(deltas) |-> IF Lt(deltas[k], Zero) THEN RNeg(deltas[k]) ELSE deltas[k]]

\* line 37: np.where(deltas < 0, -deltas, 0)
LossesOf(deltas) ==
    [k \in 1..Len(deltas) |-> IF Lt(deltas[k], Zero) THEN RNeg(deltas[k]) ELSE Zero]

\* Mutant of SliceTo: s[:k-1], the seed window one delta short.
SliceToShort(s, k) ==
    LET m == IF k - 1 < Len(s) THEN (IF k - 1 > 0 THEN k - 1 ELSE 0) ELSE Len(s)
    IN  [j \in 1..m |-> s[j]]

\* Python's s[:k]: k < 0 counts from the end, and the slice never fails.
SliceTo(s, k) ==
    LET m == IF k >= 0 THEN (IF k < Len(s) THEN k ELSE Len(s))
             ELSE (IF Len(s) + k > 0 THEN Len(s) + k ELSE 0)
    IN  [j \in 1..m |-> s[j]]

\* Python's s[k] for 0-based k: a negative k counts from the end.
IndexOk(s, k) == -Len(s) <= k /\ k < Len(s)
At(s, k) == IF k >= 0 THEN s[k + 1] ELSE s[Len(s) + k + 1]

\* lines 40-41: np.mean, the running sum divided by the count; the mean of
\* an empty slice is nan (0.0 / 0).  numpy adds fewer than 8 elements in
\* order; a longer slice (the 14 of the fixture) is summed in exact
\* arithmetic only, where the order does not matter.
RECURSIVE NpSum(_, _, _)
NpSum(s, k, pr) == IF k = 0 THEN Zero ELSE FAdd(NpSum(s, k - 1, pr), s[k], pr)

NpMean(s, pr) == FDiv(NpSum(s, Len(s), pr), Num(Len(s)), pr)

\* Mutant of WilderUpdate: the exponential average with weight 2/(period+1).
WilderUpdateEma(avg, x, p, pr) ==
    FDiv(FAdd(FMul(avg, Num(p - 1), pr), FMul(x, Num(2), pr), pr), Num(p + 1), pr)

\* lines 45-46: (avg * (period - 1) + x) / period
WilderUpdate(avg, x, p, pr) ==
    FDiv(FAdd(FMul(avg, Num(p - 1), pr), x, pr), Num(p), pr)

\* Mutant of RsiOf: the guard of line 49 dropped.
RsiOfNoGuard(ag, al, pr) ==
    LET rs == FDiv(ag, al, pr)
    IN  FSub(Num(100), FDiv(Num(100), FAdd(Num(1), rs, pr), pr), pr)

\* Mutant of RsiOf: a window without any movement reported as neutral.
RsiOfFlatNeutral(ag, al, pr) ==
    IF IsZero(al) THEN (IF IsZero(ag) THEN Num(50) ELSE Num(100))
    ELSE LET rs == FDiv(ag, al, pr)
         IN  FSub(Num(100), FDiv(Num(100), FAdd(Num(1), rs, pr), pr), pr)

\* Mutant of RsiOf: 100 / (1 + rs) returned, the subtraction from 100 lost.
RsiOfInverted(ag, al, pr) ==
    IF IsZero(al) THEN Num(100)
    ELSE LET rs == FDiv(ag, al, pr)
         IN  FDiv(Num(100), FAdd(Num(1), rs, pr), pr)

\* lines 49-56
RsiOf(ag, al, pr) ==
    IF IsZero(al) THEN Num(100)
    ELSE LET rs == FDiv(ag, al, pr)
         IN  FSub(Num(100), FDiv(Num(100), FAdd(Num(1), rs, pr), pr), pr)

\* Mutant of interpret_rsi: the boundaries taken into the outer zones.
interpret_rsi_inclusive(rsi) ==
    IF Le(rsi, Num(30)) THEN "oversold"
    ELSE IF Le(Num(70), rsi) THEN "overbought"
    ELSE "neutral"

\* lines 69-74
interpret_rsi(rsi) ==
    IF Lt(rsi, Num(30)) THEN "oversold"
    ELSE IF Lt(Num(70), rsi) THEN "overbought"
    ELSE "neutral"

(***************************************************************************)
(* The calls the model makes.                                              *)
(***************************************************************************)
PriceValues == {Num(k) : k \in 0..MaxPrice}

SeqsUpTo(S, n) == UNION {[1..m -> S] : m \in 0..n}

\* A caller's list: plain numbers, or candle records as
\* connectors/binance_connector.py builds them (here with their open, the
\* previous close, and their close).
AsList(vals, isdict) ==
    [k \in 1..Len(vals) |->
        IF isdict
        THEN [dict |-> TRUE, open |-> IF k = 1 THEN vals[1] ELSE vals[k - 1],
              close |-> vals[k]]
        ELSE [dict |-> FALSE, val |-> vals[k]]]

PriceLists == {AsList(v, f) : v \in SeqsUpTo(PriceValues, MaxLen), f \in BOOLEAN}

Periods == (-MaxNegPeriod..MaxPeriod) \cup {DefaultPeriod}

\* The 15-point fixture of the specification, in hundredths.
Fixture15 ==
    [k \in 1..15 |-> Rat(<<4400, 4425, 4450, 4375, 4450, 4475, 4500, 4510,
                           4520, 4550, 4560, 4570, 4580, 4590, 4600>>[k], 100)]

\* One dip followed by a rally.
DipThenRally == <<Num(1), Num(0), Num(64)>>

\* Arguments of interpret_rsi: the integers of [0,100] and the two values
\* next to the boundaries that the specification names.
RsiSamples == {Num(k) : k \in 0..100} \cup {Rat(29999, 1000), Rat(70001, 1000)}

Precs == {0, SigBits}

InitCommon ==
    /\ prices = <<>>
    /\ gains = <<>>
    /\ losses = <<>>
    /\ avg_gain = None
    /\ avg_loss = None
    /\ i = 0
    /\ result = None
    /\ exc = "none"
    /\ label = "none"

\* No concurrent callers.
NoCallers ==
    /\ heap = <<>>
    /\ plan = <<>>
    /\ frames = <<>>
    /\ log = <<>>

\* No fetch of the price input under way.
NoFetch ==
    /\ rsi_period = DefaultPeriod
    /\ fpc = "idle"
    /\ queried = <<>>
    /\ price_data = None
    /\ historical = <<>>
    /\ fetch_rsi = None
    /\ rsi_signal = "none"
    /\ payload = None
    /\ fetch_exc = "none"

\* No agent constructed.
NoAgent ==
    /\ inputs = <<>>
    /\ llm = "None"
    /\ running = FALSE
    /\ cycle_count = 0
    /\ last_signal = None
    /\ apc = "idle"
    /\ pending = <<>>
    /\ input_data = <<>>
    /\ asked = FALSE
    /\ reply = "none"
    /\ response = <<>>
    /\ signal = None
    /\ stop_called = FALSE
    /\ started_after_stop = 0
    /\ actions = <<>>
    /\ todo = <<>>
    /\ context = None
    /\ executed = <<>>
    /\ count_before = 0

Init ==
    /\ InitCommon
    /\ NoCallers
    /\ NoFetch
    /\ NoAgent
    /\ \/ /\ entry = "calculate_rsi"
          /\ pc = "extract"
          /\ rsi_arg = None
          /\ \/ /\ arg_prices \in PriceLists
                /\ period \in Periods
                /\ prec \in Precs
             \/ /\ arg_prices = AsList(Fixture15, FALSE)
                /\ period = DefaultPeriod
                /\ prec = 0
             \/ /\ arg_prices = AsList(DipThenRally, FALSE)
                /\ period = 2
                /\ prec \in Precs
       \/ /\ entry = "interpret_rsi"
          /\ pc = "interpret"
          /\ rsi_arg \in RsiSamples
          /\ arg_prices = <<>>
          /\ period = DefaultPeriod
          /\ prec = 0

\* line 23 on an empty list: prices[0] raises IndexError.
RaiseEmpty ==
    /\ pc = "extract"
    /\ Len(arg_prices) = 0
    /\ exc' = "IndexError"
    /\ pc' = "raised"
    /\ UNCHANGED <<entry, arg_prices, period, prec, prices, gains, losses,
                   avg_gain, avg_loss, i, result, rsi_arg, label>>

\* lines 23-24
Extract ==
    /\ pc = "extract"
    /\ Len(arg_prices) > 0
    /\ prices' = ExtractClose(arg_prices)
    /\ pc' = "check"
    /\ UNCHANGED <<entry, arg_prices, period, prec, gains, losses,
                   avg_gain, avg_loss, i, result, exc, rsi_arg, label>>

\* lines 26-27
ReturnNeutral ==
    /\ pc = "check"
    /\ InsufficientData(Len(prices), period)
    /\ result' = Num(50)
    /\ pc' = "returned"
    /\ UNCHANGED <<entry, arg_prices, period, prec, prices, gains, losses,
                   avg_gain, avg_loss, i, exc, rsi_arg, label>>

\* lines 29-41, up to the head of the loop at line 44
Seed ==
    /\ pc = "check"
    /\ ~InsufficientData(Len(prices), period)
    /\ LET arr == ToFloatArray(prices, prec)
           deltas == NpDiff(arr, prec)
       IN  /\ prices' = arr
           /\ gains' = GainsOf(deltas)
           /\ losses' = LossesOf(deltas)
           /\ avg_gain' = NpMean(SliceTo(GainsOf(deltas), period), prec)
           /\ avg_loss' = NpMean(SliceTo(LossesOf(deltas), period), prec)
    /\ i' = period
    /\ pc' = "loop"
    /\ UNCHANGED <<entry, arg_prices, period, prec, result, exc, rsi_arg, label>>

\* lines 44-46, one iteration
Smooth ==
    /\ pc = "loop"
    /\ i < Len(gains)
    /\ IndexOk(gains, i)
    /\ avg_gain' = WilderUpdate(avg_gain, At(gains, i), period, prec)
    /\ avg_loss' = WilderUpdate(avg_loss, At(losses, i), period, prec)
    /\ i' = i + 1
    /\ UNCHANGED <<entry, arg_prices, period, prec, pc, prices, gains, losses,
                   result, exc, rsi_arg, label>>

\* line 45 with an index below -len(gains): IndexError
RaiseIndex ==
    /\ pc = "loop"
    /\ i < Len(gains)
    /\ ~IndexOk(gains, i)
    /\ exc' = "IndexError"
    /\ pc' = "raised"
    /\ UNCHANGED <<entry, arg_prices, period, prec, prices, gains, losses,
                   avg_gain, avg_loss, i, result, rsi_arg, label>>

\* lines 48-56, after the loop
Finish ==
    /\ pc = "loop"
    /\ i >= Len(gains)
    /\ result' = RsiOf(avg_gain, avg_loss, prec)
    /\ pc' = "returned"
    /\ UNCHANGED <<entry, arg_prices, period, prec, prices, gains, losses,
                   avg_gain, avg_loss, i, exc, rsi_arg, label>>

\* The caller hands the returned value to interpret_rsi
\* (inputs/bitcoin_price/plugin.py lines 69 and 74).
PassOn ==
    /\ pc = "returned"
    /\ rsi_arg' = result
    /\ pc' = "interpret"
    /\ UNCHANGED <<entry, arg_prices, period, prec, prices, gains, losses,
                   avg_gain, avg_loss, i, result, exc, label>>

\* lines 59-74
Interpret ==
    /\ pc = "interpret"
    /\ label' = interpret_rsi(rsi_arg)
    /\ pc' = "done"
    /\ UNCHANGED <<entry, arg_prices, period, prec, prices, gains, losses,
                   avg_gain, avg_loss, i, result, exc, rsi_arg>>

Next ==
    \/ RaiseEmpty /\ UNCHANGED not_rsi
    \/ Extract /\ UNCHANGED not_rsi
    \/ ReturnNeutral /\ UNCHANGED not_rsi
    \/ Seed /\ UNCHANGED not_rsi
    \/ Smooth /\ UNCHANGED not_rsi
    \/ RaiseIndex /\ UNCHANGED not_rsi
    \/ Finish /\ UNCHANGED not_rsi
    \/ PassOn /\ UNCHANGED not_rsi
    \/ Interpret /\ UNCHANGED not_rsi

Spec == Init /\ [][Next]_vars

(***************************************************************************)
(* Vocabulary of the properties: the call as its caller sees it.           *)
(***************************************************************************)
InCalc == entry = "calculate_rsi"
CallOver == InCalc /\ pc \in {"returned", "raised", "interpret", "done"}
Returned == InCalc /\ pc \in {"returned", "interpret", "done"}
Raised == InCalc /\ pc = "raised"

\* The price sequence handed in, and its exact first differences.
ArgLen == Len(arg_prices)
ArgClose(k) == IF arg_prices[k].dict THEN arg_prices[k].close ELSE arg_prices[k].val
InDelta(k) == RSub(ArgClose(k + 1), ArgClose(k))
Sufficient == period >= 1 /\ ArgLen >= period + 1

(***************************************************************************)
(* C1 (as stated): for every period p >= 1 and every price sequence of     *)
(* length below p+1, calculate_rsi returns exactly 50.0.  The empty        *)
(* sequence refutes it: line 23 raises IndexError before the length test.  *)
(***************************************************************************)
C1_ShortReturns50 ==
    (CallOver /\ period >= 1 /\ ArgLen < period + 1) => result = Num(50)

(***************************************************************************)
(* C2 (as stated): an empty or single-element price sequence with period   *)
(* 14 returns 50.0 and raises no exception.  Refuted by the empty list.    *)
(***************************************************************************)
C2_EmptyOrSingleNoError ==
    (CallOver /\ period = DefaultPeriod /\ ArgLen <= 1)
        => (exc = "none" /\ result = Num(50))

(***************************************************************************)
(* C3 (as stated): with period < 1 the call fails with an error and never  *)
(* returns a numeric value.  Refuted: nothing validates period, the call   *)
(* returns nan for period 0 and a number for a negative period.            *)
(***************************************************************************)
C3_BadPeriodFails ==
    (CallOver /\ period < 1) => (Raised /\ result = None)

\* A call with period < 1 that returned a finite number.
C3_Witness == Returned /\ period < 1 /\ IsNum(result)

(***************************************************************************)
(* The reference Wilder computation, written from its definition: seed with*)
(* the arithmetic mean of the first period gains (losses), then one update *)
(* (avg*(period-1) + x)/period per further delta, in the arithmetic of the *)
(* run.  RefAvg(w, j) is the average after the first j deltas.             *)
(***************************************************************************)
RefDelta(k) == FSub(fl(ArgClose(k + 1), prec), fl(ArgClose(k), prec), prec)
RefPart(w, k) ==
    LET x == IF w = "gain" THEN RefDelta(k) ELSE RNeg(RefDelta(k))
    IN  IF Lt(Zero, x) THEN x ELSE Zero

RECURSIVE RefSum(_, _)
RefSum(w, k) == IF k = 0 THEN Zero ELSE FAdd(RefSum(w, k - 1), RefPart(w, k), prec)

RECURSIVE RefAvg(_, _)
RefAvg(w, j) ==
    IF j <= period THEN FDiv(RefSum(w, period), Num(period), prec)
    ELSE FDiv(FAdd(FMul(RefAvg(w, j - 1), Num(period - 1), prec),
                   RefPart(w, j), prec),
              Num(period), prec)

RefRsi ==
    LET rs == FDiv(RefAvg("gain", ArgLen - 1), RefAvg("loss", ArgLen - 1), prec)
    IN  FSub(Num(100), FDiv(Num(100), FAdd(Num(1), rs, prec), prec), prec)

(***************************************************************************)
(* C4: for every period p >= 1 and every price sequence of length >= p+1   *)
(* whose final average loss is positive, calculate_rsi equals the          *)
(* reference Wilder computation (seed, then smoothing, then                *)
(* 100 - 100/(1 + avgGain/avgLoss)).                                       *)
(***************************************************************************)
C4_EqualsWilder ==
    (Returned /\ Sufficient /\ Lt(Zero, RefAvg("loss", ArgLen - 1)))
        => /\ avg_gain = RefAvg("gain", ArgLen - 1)
           /\ avg_loss = RefAvg("loss", ArgLen - 1)
           /\ result = RefRsi

\* A returned call that smoothed at least once, with gains and losses.
C4_Witness ==
    /\ Returned /\ Sufficient
    /\ ArgLen > period + 1 /\ period >= 2
    /\ Lt(Zero, avg_loss) /\ Lt(Zero, avg_gain)
    /\ result = RefRsi

HalfUlpBelow100 == Rat(64, Pow2(prec))

AllUp == \A k \in 1..(ArgLen - 1) : Le(Zero, InDelta(k))
SomeUp == \E k \in 1..(ArgLen - 1) : Lt(Zero, InDelta(k))
AllDown == \A k \in 1..(ArgLen - 1) : Le(InDelta(k), Zero)
SomeDown == \E k \in 1..(ArgLen - 1) : Lt(InDelta(k), Zero)

C7_RisingIs100 ==
    (Returned /\ Sufficient /\ AllUp /\ SomeUp) => result = Num(100)

\* A rising sequence long enough to be smoothed, returned.
C7_Witness ==
    /\ Returned /\ Sufficient /\ AllUp /\ SomeUp
    /\ ArgLen > period + 1
    /\ result = Num(100)

(***************************************************************************)
(* C8 (as stated): for every monotonically decreasing price sequence of    *)
(* length >= period+1 (no delta above 0, at least one below 0)             *)
(* calculate_rsi returns at most a small epsilon above 0.0.                *)
(***************************************************************************)
Epsilon == Rat(1, 1000)

C8_FallingNearZero ==
    (Returned /\ Sufficient /\ AllDown /\ SomeDown) => Le(result, Epsilon)

(***************************************************************************)
(* C8 (amended): for every strictly decreasing price sequence (every delta *)
(* below 0) of length >= period+1 with period >= 1, the average gain is 0, *)
(* the average loss is positive and calculate_rsi returns exactly 0.0.     *)
(***************************************************************************)
AllStrictlyDown == \A k \in 1..(ArgLen - 1) : Lt(InDelta(k), Zero)

C8_StrictlyFallingIs0 ==
    (Returned /\ Sufficient /\ AllStrictlyDown)
        => (IsZero(avg_gain) /\ Lt(Zero, avg_loss) /\ result = Zero)

\* A strictly falling sequence long enough to be smoothed, returned.
C8_Witness ==
    /\ Returned /\ Sufficient /\ AllStrictlyDown
    /\ ArgLen > period + 1
    /\ result = Zero

(***************************************************************************)
(* C9: interpret_rsi maps every rsi in [0,100] to exactly one label:       *)
(* oversold iff rsi < 30, overbought iff rsi > 70, neutral otherwise; 30   *)
(* and 70 themselves are neutral.                                          *)
(***************************************************************************)
C9_ThreeZones ==
    (pc = "done" /\ Le(Zero, rsi_arg) /\ Le(rsi_arg, Num(100)))
        => /\ label \in {"oversold", "neutral", "overbought"}
           /\ (label = "oversold") <=> Lt(rsi_arg, Num(30))
           /\ (label = "overbought") <=> Lt(Num(70), rsi_arg)
           /\ (label = "neutral") <=> (Le(Num(30), rsi_arg) /\ Le(rsi_arg, Num(70)))

\* interpret_rsi has answered on a boundary.
C9_Witness ==
    pc = "done" /\ rsi_arg \in {Num(30), Num(70)} /\ label = "neutral"

(***************************************************************************)
(* C10: with exactly period+1 prices no smoothing iteration runs and the   *)
(* result is that of the seed averages alone, 100*sumGain/(sumGain+sumLoss)*)
(* over the period deltas; the 15-point fixture with period 14 gives 550/7 *)
(* and the label overbought.                                               *)
(***************************************************************************)
InPart(w, k) ==
    LET x == IF w = "gain" THEN InDelta(k) ELSE RNeg(InDelta(k))
    IN  IF Lt(Zero, x) THEN x ELSE Zero

RECURSIVE InSum(_, _)
InSum(w, k) == IF k = 0 THEN Zero ELSE RAdd(InSum(w, k - 1), InPart(w, k))

IsFixture15 == arg_prices = AsList(Fixture15, FALSE) /\ period = DefaultPeriod

C10_SeedOnly ==
    /\ (InCalc /\ pc # "extract" /\ pc # "check" /\ period >= 1
            /\ ArgLen = period + 1)
          => /\ i = period
             /\ (Returned /\ prec = 0 /\ ~IsZero(InSum("loss", period)))
                   => result = RDiv(RMul(Num(100), InSum("gain", period)),
                                    RAdd(InSum("gain", period), InSum("loss", period)))
    /\ (IsFixture15 /\ Returned) => result = Rat(550, 7)
    /\ (IsFixture15 /\ pc = "done") => label = "overbought"

\* The fixture has been computed and labelled.
C10_Witness ==
    IsFixture15 /\ pc = "done" /\ result = Rat(550, 7) /\ label = "overbought"

(***************************************************************************)
(* C11: for a flat price series (all deltas zero) of length >= period+1,   *)
(* calculate_rsi returns 100.0, and interpret_rsi then answers overbought; *)
(* the neutral 50.0 is not returned.                                       *)
(***************************************************************************)
AllFlat == \A k \in 1..(ArgLen - 1) : IsZero(InDelta(k))

C11_FlatIs100 ==
    (Returned /\ Sufficient /\ AllFlat)
        => /\ result = Num(100)
           /\ IsZero(avg_gain) /\ IsZero(avg_loss)
           /\ pc = "done" => label = "overbought"

\* A flat series long enough to be smoothed, computed and labelled.
C11_Witness ==
    /\ pc = "done" /\ InCalc /\ Sufficient /\ AllFlat
    /\ ArgLen > period + 1
    /\ result = Num(100) /\ label = "overbought"

(***************************************************************************)
(* C12: the RSI is monotonically non-decreasing in RS = avgGain/avgLoss.   *)
(* The final averages of a returned call are compared with every pair of   *)
(* final averages (g, l), l > 0, that another sufficient input can end     *)
(* with: whenever g/l <= avg_gain/avg_loss the value lines 53-56 give for  *)
(* (g, l) is <= the value returned, and the other way round.               *)
(***************************************************************************)
AvgSamples == {Rat(k, 2) : k \in 0..(2 * MaxPrice)}

C12_MonotoneInRS ==
    (Returned /\ Sufficient /\ Lt(Zero, avg_loss))
        => \A g \in AvgSamples, l \in AvgSamples \ {Zero} :
              /\ Le(RDiv(g, l), RDiv(avg_gain, avg_loss))
                    => Le(RsiOf(g, l, prec), result)
              /\ Le(RDiv(avg_gain, avg_loss), RDiv(g, l))
                    => Le(result, RsiOf(g, l, prec))

\* A returned value strictly between those of a smaller and a larger ratio.
C12_Witness ==
    /\ Returned /\ Sufficient /\ Lt(Zero, avg_loss)
    /\ \E g \in AvgSamples, l \in AvgSamples \ {Zero} :
          /\ Lt(RDiv(g, l), RDiv(avg_gain, avg_loss))
          /\ Lt(RsiOf(g, l, prec), result)
    /\ \E g \in AvgSamples, l \in AvgSamples \ {Zero} :
          /\ Lt(RDiv(avg_gain, avg_loss), RDiv(g, l))
          /\ Lt(result, RsiOf(g, l, prec))

(***************************************************************************)
(* Several callers of utils/rsi.py.  Every call has an activation of its   *)
(* own (a Python frame holding the locals of lines 23-56); what callers    *)
(* can share are the list objects they pass by reference.  Caller 1 calls  *)
(* twice with the same list and period; caller 2 calls once, with the same *)
(* list object, with the same closes in the other form, or with another    *)
(* list; the steps of the callers interleave freely.                       *)
(***************************************************************************)
Callers == {1, 2}

NoFrame == [pc |-> "none"]

\* The locals of a call that has just been entered; given remembers the
\* argument as it was at entry.
FreshFrame(lst) ==
    [pc |-> "extract", prices |-> <<>>, gains |-> <<>>, losses |-> <<>>,
     avg_gain |-> None, avg_loss |-> None, i |-> 0, result |-> None,
     exc |-> "none", rsi_arg |-> None, label |-> "none", given |-> lst]

\* Mutant of FrameStep: the running averages kept in one module-level
\* place, so that a call in its loop continues from the averages of
\* another call that is in its loop too.
FrameStepSharedAvg(f, lst, p, pr) ==
    LET inloop == {c \in DOMAIN frames : frames[c].pc = "loop" /\ frames[c] # f}
        g == IF f.pc = "loop" /\ inloop # {}
             THEN [f EXCEPT !.avg_gain = frames[CHOOSE c \in inloop : TRUE].avg_gain,
                            !.avg_loss = frames[CHOOSE c \in inloop : TRUE].avg_loss]
             ELSE f
    IN  CASE g.pc = "extract" ->
               IF Len(lst) = 0 THEN [g EXCEPT !.exc = "IndexError", !.pc = "raised"]
               ELSE [g EXCEPT !.prices = ExtractClose(lst), !.pc = "check"]
          [] g.pc = "check" ->
               IF InsufficientData(Len(g.prices), p)
               THEN [g EXCEPT !.result = Num(50), !.pc = "returned"]
               ELSE LET arr == ToFloatArray(g.prices, pr)
                        deltas == NpDiff(arr, pr)
                    IN  [g EXCEPT !.prices = arr,
                                  !.gains = GainsOf(deltas),
                                  !.losses = LossesOf(deltas),
                                  !.avg_gain = NpMean(SliceTo(GainsOf(deltas), p), pr),
                                  !.avg_loss = NpMean(SliceTo(LossesOf(deltas), p), pr),
                                  !.i = p,
                                  !.pc = "loop"]
          [] g.pc = "loop" ->
               IF g.i < Len(g.gains)
               THEN IF IndexOk(g.gains, g.i)
                    THEN [g EXCEPT !.avg_gain = WilderUpdate(g.avg_gain, At(g.gains, g.i), p, pr),
                                   !.avg_loss = WilderUpdate(g.avg_loss, At(g.losses, g.i), p, pr),
                                   !.i = g.i + 1]
                    ELSE [g EXCEPT !.exc = "IndexError", !.pc = "raised"]
               ELSE [g EXCEPT !.result = RsiOf(g.avg_gain, g.avg_loss, pr),
                              !.pc = "returned"]
          [] g.pc = "returned" -> [g EXCEPT !.rsi_arg = g.result, !.pc = "interpret"]
          [] g.pc = "interpret" -> [g EXCEPT !.label = interpret_rsi(g.rsi_arg), !.pc = "done"]
          [] OTHER -> g

\* One step of a call on its own locals f, with the list lst behind the
\* reference it was given: the steps RaiseEmpty, Extract, ReturnNeutral,
\* Seed, Smooth, RaiseIndex, Finish, PassOn and Interpret above.
FrameStep(f, lst, p, pr) ==
    CASE f.pc = "extract" ->
           IF Len(lst) = 0 THEN [f EXCEPT !.exc = "IndexError", !.pc = "raised"]
           ELSE [f EXCEPT !.prices = ExtractClose(lst), !.pc = "check"]
      [] f.pc = "check" ->
           IF InsufficientData(Len(f.prices), p)
           THEN [f EXCEPT !.result = Num(50), !.pc = "returned"]
           ELSE LET arr == ToFloatArray(f.prices, pr)
                    deltas == NpDiff(arr, pr)
                IN  [f EXCEPT !.prices = arr,
                              !.gains = GainsOf(deltas),
                              !.losses = LossesOf(deltas),
                              !.avg_gain = NpMean(SliceTo(GainsOf(deltas), p), pr),
                              !.avg_loss = NpMean(SliceTo(LossesOf(deltas), p), pr),
                              !.i = p,
                              !.pc = "loop"]
      [] f.pc = "loop" ->
           IF f.i < Len(f.gains)
           THEN IF IndexOk(f.gains, f.i)
                THEN [f EXCEPT !.avg_gain = WilderUpdate(f.avg_gain, At(f.gains, f.i), p, pr),
                               !.avg_loss = WilderUpdate(f.avg_loss, At(f.losses, f.i), p, pr),
                               !.i = f.i + 1]
                ELSE [f EXCEPT !.exc = "IndexError", !.pc = "raised"]
           ELSE [f EXCEPT !.result = RsiOf(f.avg_gain, f.avg_loss, pr),
                          !.pc = "returned"]
      [] f.pc = "returned" -> [f EXCEPT !.rsi_arg = f.result, !.pc = "interpret"]
      [] f.pc = "interpret" -> [f EXCEPT !.label = interpret_rsi(f.rsi_arg), !.pc = "done"]
      [] OTHER -> f

FrameOver(f) == f.pc \in {"done", "raised"}

\* The prices and periods of the callers' lists.
CallerValues == {Num(0), Num(1), Num(MaxPrice)}
CallerPeriods == 0..(MaxPeriod - 1)

\* utils/rsi.py itself is not entered by a single caller here.
RsiIdle ==
    /\ InitCommon
    /\ entry = "none"
    /\ pc = "idle"
    /\ arg_prices = <<>>
    /\ period = DefaultPeriod
    /\ rsi_arg = None

InitCallers ==
    /\ RsiIdle
    /\ NoFetch
    /\ NoAgent
    /\ prec = SigBits
    /\ \E vals \in SeqsUpTo(CallerValues, MaxLen - 1), form \in BOOLEAN,
          p \in CallerPeriods,
          second \in {"same object", "other form", "other list"} :
          /\ second = "other form" => form
          /\ second = "other list" => ~form
          /\ heap = <<AsList(vals, form),
                      IF second = "other form" THEN AsList(vals, ~form)
                      ELSE AsList(DipThenRally, FALSE)>>
          /\ plan = <<[obj |-> 1, period |-> p, calls |-> 2],
                      [obj |-> IF second = "same object" THEN 1 ELSE 2,
                       period |-> IF second = "other list" THEN 2 ELSE p,
                       calls |-> 1]>>
    /\ frames = [c \in Callers |-> NoFrame]
    /\ log = <<>>

CallsBy(c) == Cardinality({k \in 1..Len(log) : log[k].caller = c})

\* The list behind the reference caller c passes.
ListOf(c) == heap[plan[c].obj]

\* A caller enters calculate_rsi: a new activation, the list by reference.
Enter(c) ==
    /\ frames[c] = NoFrame
    /\ CallsBy(c) < plan[c].calls
    /\ frames' = [frames EXCEPT ![c] = FreshFrame(ListOf(c))]
    /\ UNCHANGED <<heap, plan, log, not_callers>>

\* Mutant of Step: the closes projected in place, prices[:] = [...], into
\* the caller's list.
StepInPlace(c) ==
    /\ frames[c] # NoFrame
    /\ ~FrameOver(frames[c])
    /\ frames' = [frames EXCEPT ![c] = FrameStep(frames[c], ListOf(c), plan[c].period, prec)]
    /\ heap' = IF frames[c].pc = "extract" /\ Len(ListOf(c)) > 0
               THEN [heap EXCEPT ![plan[c].obj] = AsList(ExtractClose(ListOf(c)), FALSE)]
               ELSE heap
    /\ UNCHANGED <<plan, log, not_callers>>

\* The call of caller c takes one step; nothing but its own locals changes.
Step(c) ==
    /\ frames[c] # NoFrame
    /\ ~FrameOver(frames[c])
    /\ frames' = [frames EXCEPT ![c] = FrameStep(frames[c], ListOf(c), plan[c].period, prec)]
    /\ UNCHANGED <<heap, plan, log, not_callers>>

\* The call is over; the caller notes what it passed and what it got.
Leave(c) ==
    /\ frames[c] # NoFrame
    /\ FrameOver(frames[c])
    /\ log' = Append(log, [caller |-> c,
                           given |-> frames[c].given,
                           left |-> ListOf(c),
                           period |-> plan[c].period,
                           result |-> frames[c].result,
                           exc |-> frames[c].exc,
                           label |-> frames[c].label])
    /\ frames' = [frames EXCEPT ![c] = NoFrame]
    /\ UNCHANGED <<heap, plan, not_callers>>

NextCallers ==
    \E c \in Callers : Enter(c) \/ Step(c) \/ Leave(c)

SpecCallers == InitCallers /\ [][NextCallers]_vars

\* The single call of Spec seen as a frame: every step Spec takes is the
\* step FrameStep takes on it.
FrameOfCall ==
    [pc |-> pc, prices |-> prices, gains |-> gains, losses |-> losses,
     avg_gain |-> avg_gain, avg_loss |-> avg_loss, i |-> i, result |-> result,
     exc |-> exc, rsi_arg |-> rsi_arg, label |-> label, given |-> arg_prices]

FrameStepAgrees ==
    [][FrameOfCall' = FrameStep(FrameOfCall, arg_prices, period, prec)]_vars

\* What a finished call gave back.
Outcome(e) == [result |-> e.result, exc |-> e.exc, label |-> e.label]

(***************************************************************************)
(* C13: calculate_rsi is deterministic: any two finished calls that were   *)
(* given identical prices and the same period gave identical results (the  *)
(* same value, or the same exception), whatever other calls ran before, in *)
(* between or interleaved with them.                                       *)
(***************************************************************************)
C13_Deterministic ==
    \A j, k \in 1..Len(log) :
        (log[j].given = log[k].given /\ log[j].period = log[k].period)
            => Outcome(log[j]) = Outcome(log[k])

\* The first caller's two calls, a call on another list returned in
\* between, and a value computed from gains and losses.
C13_Witness ==
    /\ Len(log) = 3
    /\ log[1].caller = 1 /\ log[2].caller = 2 /\ log[3].caller = 1
    /\ log[2].given # log[1].given
    /\ log[1].period >= 1 /\ Len(log[1].given) >= log[1].period + 1
    /\ IsNum(log[1].result) /\ log[1].result \notin {Num(0), Num(50), Num(100)}
    /\ log[3].result = log[1].result

\* The call run to its end with nothing else going on.
RECURSIVE RunFrom(_, _, _, _)
RunFrom(f, lst, p, pr) ==
    IF FrameOver(f) THEN f ELSE RunFrom(FrameStep(f, lst, p, pr), lst, p, pr)

RunAlone(lst, p, pr) == RunFrom(FreshFrame(lst), lst, p, pr)

(***************************************************************************)
(* C14: calculate_rsi and interpret_rsi have no side effects.  The list a  *)
(* caller passed (numbers or candle records) is, during the call and when  *)
(* it returns, the list as it was at entry, also when another caller       *)
(* passed the very same list object; and every call, however its steps     *)
(* were interleaved with those of other callers, ends with the result,     *)
(* exception and label it ends with when run alone (stated of the call     *)
(* that returned last: every finished call was once the last).             *)
(***************************************************************************)
LastCall == log[Len(log)]

C14_NoSideEffects ==
    /\ \A c \in Callers : frames[c] # NoFrame => ListOf(c) = frames[c].given
    /\ \A k \in 1..Len(log) : log[k].left = log[k].given
    /\ Len(log) > 0
          => Outcome(LastCall) = Outcome(RunAlone(LastCall.given, LastCall.period, prec))

\* Both callers passed the same list of candle records; the second caller's
\* call returned while the first caller was inside its smoothing loop.
C14_Witness ==
    /\ plan[2].obj = plan[1].obj
    /\ Len(heap[1]) > plan[1].period + 1 /\ plan[1].period >= 1
    /\ heap[1][1].dict
    /\ frames[1].pc = "loop" /\ frames[1].i > plan[1].period
    /\ \E k \in 1..Len(log) : log[k].caller = 2 /\ IsNum(log[k].result)
    /\ \E k \in 1..Len(log) : log[k].caller = 1

\* The closes of a list in either form.
ClosesOf(lst) ==
    [k \in 1..Len(lst) |-> IF lst[k].dict THEN lst[k].close ELSE lst[k].val]

IsCandles(lst) == Len(lst) > 0 /\ lst[1].dict

(***************************************************************************)
(* C15: a call given candle records and a call given the sequence of their *)
(* 'close' values, with the same period, give the same result, for every   *)
(* period and every length (also below period+1, where both return 50.0,   *)
(* and for the empty sequence, where both fail alike).                     *)
(***************************************************************************)
C15_CandlesAsCloses ==
    \A j, k \in 1..Len(log) :
        (/\ log[j].period = log[k].period
         /\ ClosesOf(log[j].given) = ClosesOf(log[k].given))
            => Outcome(log[j]) = Outcome(log[k])

\* A candle list and the list of its closes, both computed with losses and
\* gains in the window.
C15_Witness ==
    \E j, k \in 1..Len(log) :
        /\ IsCandles(log[j].given) /\ ~IsCandles(log[k].given)
        /\ Len(log[k].given) > 0
        /\ log[j].period = log[k].period
        /\ ClosesOf(log[j].given) = ClosesOf(log[k].given)
        /\ IsNum(log[j].result) /\ log[j].result \notin {Num(0), Num(50), Num(100)}
        /\ log[k].result = log[j].result

(***************************************************************************)
(* inputs/bitcoin_price/plugin.py, BitcoinPriceInput.fetch, with           *)
(* connectors/binance_connector.py: the current price from the first       *)
(* source that answers, the candles of the last hours, the RSI of their    *)
(* closes by calculate_rsi (the steps of Spec), its label, the payload.    *)
(***************************************************************************)
\* Mutant of plugin_interpret_rsi: the boundaries taken into the outer zones.
plugin_interpret_rsi_inclusive(r) ==
    IF Le(r, Num(30)) THEN "oversold"
    ELSE IF Le(Num(70), r) THEN "overbought"
    ELSE "neutral"

\* plugin.py lines 88-103, _interpret_rsi
plugin_interpret_rsi(r) ==
    IF Lt(r, Num(30)) THEN "oversold"
    ELSE IF Lt(Num(70), r) THEN "overbought"
    ELSE "neutral"

\* The configured rsi_period (config.get('rsi_period', 14)).
FetchPeriods == ((-MaxNegPeriod)..(MaxPeriod - 1)) \cup {DefaultPeriod}

\* Prices a source quotes.
Quotes == {Num(1), Num(MaxPrice)}

\* What the klines request can come back with: candle records, none at
\* all when the request failed (binance_connector.py lines 156-159).
Histories == {AsList(v, TRUE) : v \in SeqsUpTo(CallerValues, MaxLen - 1)}

\* binance_connector.py lines 71-79, 94-102, 111-119
SourceReply(src, q) == [source |-> src, price |-> q]

AllSourcesDown == "All Bitcoin price sources unavailable"

InitFetch ==
    /\ RsiIdle
    /\ NoCallers
    /\ NoAgent
    /\ prec \in Precs
    /\ rsi_period \in FetchPeriods
    /\ fpc = "binance"
    /\ queried = <<>>
    /\ price_data = None
    /\ historical = <<>>
    /\ fetch_rsi = None
    /\ rsi_signal = "none"
    /\ payload = None
    /\ fetch_exc = "none"

\* get_current_price, lines 45-49: Binance first
TryBinance ==
    /\ fpc = "binance"
    /\ \/ /\ \E q \in Quotes : price_data' = SourceReply("Binance", q)
          /\ queried' = Append(queried, [source |-> "Binance", ok |-> TRUE])
          /\ fpc' = "history"
       \/ /\ queried' = Append(queried, [source |-> "Binance", ok |-> FALSE])
          /\ fpc' = "coingecko"
          /\ UNCHANGED price_data
    /\ UNCHANGED <<rsi_period, historical, fetch_rsi, rsi_signal, payload,
                   fetch_exc, rsi_vars, prec, not_fetch>>

\* Mutant of TryCoinGecko: a failure of CoinGecko gives up at once.
TryCoinGeckoGiveUp ==
    /\ fpc = "coingecko"
    /\ \/ /\ \E q \in Quotes : price_data' = SourceReply("CoinGecko", q)
          /\ queried' = Append(queried, [source |-> "CoinGecko", ok |-> TRUE])
          /\ fpc' = "history"
          /\ UNCHANGED fetch_exc
       \/ /\ queried' = Append(queried, [source |-> "CoinGecko", ok |-> FALSE])
          /\ fetch_exc' = AllSourcesDown
          /\ fpc' = "raised"
          /\ UNCHANGED price_data
    /\ UNCHANGED <<rsi_period, historical, fetch_rsi, rsi_signal, payload,
                   rsi_vars, prec, not_fetch>>

\* get_current_price, lines 51-55: CoinGecko after Binance failed
TryCoinGecko ==
    /\ fpc = "coingecko"
    /\ \/ /\ \E q \in Quotes : price_data' = SourceReply("CoinGecko", q)
          /\ queried' = Append(queried, [source |-> "CoinGecko", ok |-> TRUE])
          /\ fpc' = "history"
       \/ /\ queried' = Append(queried, [source |-> "CoinGecko", ok |-> FALSE])
          /\ fpc' = "coincap"
          /\ UNCHANGED price_data
    /\ UNCHANGED <<rsi_period, historical, fetch_rsi, rsi_signal, payload,
                   fetch_exc, rsi_vars, prec, not_fetch>>

\* get_current_price, lines 57-62: CoinCap last; its failure raises, and
\* fetch (line 58) lets the exception pass.
TryCoinCap ==
    /\ fpc = "coincap"
    /\ \/ /\ \E q \in Quotes : price_data' = SourceReply("CoinCap", q)
          /\ queried' = Append(queried, [source |-> "CoinCap", ok |-> TRUE])
          /\ fpc' = "history"
          /\ UNCHANGED fetch_exc
       \/ /\ queried' = Append(queried, [source |-> "CoinCap", ok |-> FALSE])
          /\ fetch_exc' = AllSourcesDown
          /\ fpc' = "raised"
          /\ UNCHANGED price_data
    /\ UNCHANGED <<rsi_period, historical, fetch_rsi, rsi_signal, payload,
                   rsi_vars, prec, not_fetch>>

\* plugin.py lines 61-64 with get_historical_data: the candles, or [].
FetchHistory ==
    /\ fpc = "history"
    /\ historical' \in Histories
    /\ fpc' = "rsi"
    /\ UNCHANGED <<rsi_period, queried, price_data, fetch_rsi, rsi_signal,
                   payload, fetch_exc, rsi_vars, prec, not_fetch>>

\* plugin.py lines 67-69: enough candles, calculate_rsi is entered with
\* the list of their closes.
FetchCallRsi ==
    /\ fpc = "rsi"
    /\ Len(historical) >= rsi_period
    /\ arg_prices' = AsList([k \in 1..Len(historical) |-> historical[k].close], FALSE)
    /\ period' = rsi_period
    /\ entry' = "calculate_rsi"
    /\ pc' = "extract"
    /\ fpc' = "calc"
    /\ UNCHANGED <<rsi_period, queried, price_data, historical, fetch_rsi,
                   rsi_signal, payload, fetch_exc, prices, gains, losses,
                   avg_gain, avg_loss, i, result, exc, rsi_arg, label, prec,
                   not_fetch>>

\* plugin.py lines 70-71: the neutral default
FetchDefaultRsi ==
    /\ fpc = "rsi"
    /\ Len(historical) < rsi_period
    /\ fetch_rsi' = Num(50)
    /\ fpc' = "interpret"
    /\ UNCHANGED <<rsi_period, queried, price_data, historical, rsi_signal,
                   payload, fetch_exc, rsi_vars, prec, not_fetch>>

\* plugin.py line 69: calculate_rsi has returned
FetchRsiBack ==
    /\ fpc = "calc"
    /\ pc = "returned"
    /\ fetch_rsi' = result
    /\ fpc' = "interpret"
    /\ UNCHANGED <<rsi_period, queried, price_data, historical, rsi_signal,
                   payload, fetch_exc, rsi_vars, prec, not_fetch>>

\* plugin.py line 69: calculate_rsi has raised, fetch lets it pass
FetchRsiRaised ==
    /\ fpc = "calc"
    /\ pc = "raised"
    /\ fetch_exc' = exc
    /\ fpc' = "raised"
    /\ UNCHANGED <<rsi_period, queried, price_data, historical, fetch_rsi,
                   rsi_signal, payload, rsi_vars, prec, not_fetch>>

\* plugin.py line 74
FetchInterpret ==
    /\ fpc = "interpret"
    /\ rsi_signal' = plugin_interpret_rsi(fetch_rsi)
    /\ fpc' = "return"
    /\ UNCHANGED <<rsi_period, queried, price_data, historical, fetch_rsi,
                   payload, fetch_exc, rsi_vars, prec, not_fetch>>

\* Mutant of FetchReturn: the rsi cut to two significant bits for display.
FetchReturnCoarse ==
    /\ fpc = "return"
    /\ payload' = [price |-> price_data.price, rsi |-> fl(fetch_rsi, 2),
                   rsi_signal |-> rsi_signal, source |-> price_data.source]
    /\ fpc' = "returned"
    /\ UNCHANGED <<rsi_period, queried, price_data, historical, fetch_rsi,
                   rsi_signal, fetch_exc, rsi_vars, prec, not_fetch>>

\* plugin.py lines 76-86
FetchReturn ==
    /\ fpc = "return"
    /\ payload' = [price |-> price_data.price, rsi |-> fetch_rsi,
                   rsi_signal |-> rsi_signal, source |-> price_data.source]
    /\ fpc' = "returned"
    /\ UNCHANGED <<rsi_period, queried, price_data, historical, fetch_rsi,
                   rsi_signal, fetch_exc, rsi_vars, prec, not_fetch>>

\* The steps of calculate_rsi while fetch waits at line 69.
NextFetch ==
    \/ TryBinance
    \/ TryCoinGecko
    \/ TryCoinCap
    \/ FetchHistory
    \/ FetchCallRsi
    \/ FetchDefaultRsi
    \/ RaiseEmpty /\ UNCHANGED <<fetch_vars, not_fetch>>
    \/ Extract /\ UNCHANGED <<fetch_vars, not_fetch>>
    \/ ReturnNeutral /\ UNCHANGED <<fetch_vars, not_fetch>>
    \/ Seed /\ UNCHANGED <<fetch_vars, not_fetch>>
    \/ Smooth /\ UNCHANGED <<fetch_vars, not_fetch>>
    \/ RaiseIndex /\ UNCHANGED <<fetch_vars, not_fetch>>
    \/ Finish /\ UNCHANGED <<fetch_vars, not_fetch>>
    \/ FetchRsiBack
    \/ FetchRsiRaised
    \/ FetchInterpret
    \/ FetchReturn

SpecFetch == InitFetch /\ [][NextFetch]_vars

\* fetch has returned its payload / has been left by an exception.
FetchReturned == fpc = "returned"
FetchRaised == fpc = "raised"
RsiCalled == entry = "calculate_rsi"

(***************************************************************************)
(* C16: fetch forwards the RSI unmodified.  When fetch has returned after  *)
(* calling calculate_rsi, that call was given the closes of the fetched    *)
(* candles and rsi_period, and the payload's rsi is exactly the value it   *)
(* returned; when it has returned without calling (fewer candles than     *)
(* rsi_period) the rsi is the 50.0 that calculate_rsi returns for those    *)
(* closes too, unless there are none; the payload's rsi_signal is          *)
(* interpret_rsi of the payload's rsi; and the plugin's own _interpret_rsi *)
(* agrees with utils' interpret_rsi on every sampled value and on nan.     *)
(***************************************************************************)
HistoricalCloses ==
    AsList([k \in 1..Len(historical) |-> historical[k].close], FALSE)

C16_ForwardsRsi ==
    /\ (FetchReturned /\ RsiCalled)
          => /\ pc = "returned"
             /\ period = rsi_period
             /\ ClosesOf(arg_prices) = ClosesOf(historical)
             /\ payload.rsi = result
             /\ payload.rsi = RunAlone(arg_prices, rsi_period, prec).result
    /\ (FetchReturned /\ ~RsiCalled)
          => /\ Len(historical) < rsi_period
             /\ payload.rsi = Num(50)
             /\ Len(historical) > 0
                   => RunAlone(HistoricalCloses, rsi_period, prec).result = Num(50)
    /\ FetchReturned => payload.rsi_signal = interpret_rsi(payload.rsi)
    /\ \A r \in RsiSamples \cup {NaN} : plugin_interpret_rsi(r) = interpret_rsi(r)

\* A payload whose rsi was computed from gains and losses.
C16_Witness ==
    /\ FetchReturned /\ RsiCalled
    /\ rsi_period >= 1 /\ Len(historical) >= rsi_period + 1
    /\ Lt(Zero, payload.rsi) /\ Lt(payload.rsi, Num(100)) /\ payload.rsi # Num(50)
    /\ payload.rsi = result
    /\ payload.rsi_signal = "neutral"

\* The order the class documents (binance_connector.py lines 22-25).
SourceOrder == <<"Binance", "CoinGecko", "CoinCap">>

AllFailed == \A k \in 1..Len(queried) : ~queried[k].ok

(***************************************************************************)
(* C17: get_current_price tries the sources strictly in the order Binance, *)
(* CoinGecko, CoinCap.  The sources queried so far are a beginning of that *)
(* order and all but the last of them failed; a price was returned exactly *)
(* when the last one queried succeeded, and its 'source' names that one,   *)
(* the first to succeed; the exception was raised exactly when all three   *)
(* were queried and failed.                                                *)
(***************************************************************************)
C17_FallbackOrder ==
    /\ Len(queried) <= 3
    /\ \A k \in 1..Len(queried) :
          /\ queried[k].source = SourceOrder[k]
          /\ k < Len(queried) => ~queried[k].ok
    /\ price_data # None
          <=> (Len(queried) > 0 /\ queried[Len(queried)].ok)
    /\ price_data # None => price_data.source = queried[Len(queried)].source
    /\ fetch_exc = AllSourcesDown <=> (Len(queried) = 3 /\ AllFailed)
    /\ FetchReturned => payload.source = price_data.source

\* Binance and CoinGecko failed, CoinCap answered, and fetch returned.
C17_Witness ==
    /\ FetchReturned
    /\ Len(queried) = 3 /\ ~queried[1].ok /\ ~queried[2].ok /\ queried[3].ok
    /\ payload.source = "CoinCap"

(***************************************************************************)
(* agent/runtime.py, BitcoinAdvisorAgent: run() and its cycles in one      *)
(* thread, stop() called from another.  The input plugins and the LLM are  *)
(* the environment: a fetch returns a dict or raises, the LLM request      *)
(* answers with a text, fails, or answers without usable content.          *)
(***************************************************************************)
MaxCycles == 2       \* cycles the loop of run() is followed for
MaxLines == 2        \* lines of an LLM response

\* Python dicts, as far as the agent looks at them: the keys present and
\* the value under 'error'.
EmptyDict == [keys |-> {}, error |-> ""]
HasError(dt) == "error" \in dt.keys

\* inputs/bitcoin_price/plugin.py lines 76-86
BtcData ==
    [keys |-> {"price", "rsi", "rsi_signal", "price_change_24h", "volume_24h",
               "high_24h", "low_24h", "source", "timestamp"},
     error |-> ""]

\* inputs/news_sentiment/plugin.py lines 106-114
NewsData ==
    [keys |-> {"sentiment_score", "sentiment_label", "news_count",
               "latest_headlines", "positive_count", "negative_count",
               "neutral_count"},
     error |-> ""]

\* inputs/news_sentiment/plugin.py lines 59-69
NoArticles ==
    [keys |-> NewsData.keys \cup {"error"}, error |-> "No news articles fetched"]

\* runtime.py line 141
ErrorDict(msg) == [keys |-> {"error"}, error |-> msg]

\* The configured inputs, in the order of the configuration.
InputNames == <<"bitcoin_price", "news_sentiment">>

FetchReturns(name) ==
    IF name = "bitcoin_price" THEN {BtcData} ELSE {NewsData, NoArticles}

FetchRaises(name) ==
    IF name = "bitcoin_price" THEN {AllSourcesDown, "IndexError"}
    ELSE {"news request failed"}

\* A dict with no entry yet, an entry added, dict.get(name, {}).
EmptyMap == [n \in {} |-> EmptyDict]
Put(m, name, v) == [n \in DOMAIN m \cup {name} |-> IF n = name THEN v ELSE m[n]]
Get(m, name) == IF name \in DOMAIN m THEN m[name] ELSE EmptyDict

\* Signals: runtime.py lines 156-160, 167-171, 183-187, 227-231.  The
\* reasoning is kept in parts, so that its beginning can be told.
Sig(sg, cf, rs) == [signal |-> sg, confidence |-> cf, reasoning |-> rs]

LlmNotAvailable == Sig("HOLD", 0, <<"LLM not available">>)
InsufficientInputs == Sig("HOLD", 0, <<"Insufficient data">>)
LlmError(msg) == Sig("HOLD", 0, <<"LLM error: ", msg>>)
ParseDefault == Sig("HOLD", 50, <<"Unable to parse LLM response">>)

\* The lines of a response: field lines, and lines of another kind.
SignalTexts == {"BUY", "MAYBE"}
ConfidenceTexts == {"85", "150", "high"}
Lines ==
    {[tag |-> "SIGNAL", val |-> v] : v \in SignalTexts}
        \cup {[tag |-> "CONFIDENCE", val |-> v] : v \in ConfidenceTexts}
        \cup {[tag |-> "REASONING", val |-> "RSI is low"],
              [tag |-> "other", val |-> ""]}

Responses == UNION {[1..m -> Lines] : m \in 1..MaxLines}

\* The empty string: one line, blank.
EmptyText == <<[tag |-> "other", val |-> ""]>>

\* int(text), runtime.py line 239
ParseInt(text) ==
    IF text = "85" THEN [ok |-> TRUE, n |-> 85]
    ELSE IF text = "150" THEN [ok |-> TRUE, n |-> 150]
    ELSE [ok |-> FALSE, n |-> 0]

\* Mutant of ParseLine: a CONFIDENCE text that is not an integer leaves the
\* confidence read so far, and a second SIGNAL line does not replace the
\* first.
ParseLineKeepsEarlier(sd, line) ==
    IF line.tag = "SIGNAL"
    THEN IF sd.signal = "HOLD" THEN [sd EXCEPT !.signal = line.val] ELSE sd
    ELSE IF line.tag = "CONFIDENCE"
         THEN IF ParseInt(line.val).ok
              THEN [sd EXCEPT !.confidence = ParseInt(line.val).n]
              ELSE sd
    ELSE IF line.tag = "REASONING" THEN [sd EXCEPT !.reasoning = <<line.val>>]
    ELSE sd

\* runtime.py lines 234-243, one line
ParseLine(sd, line) ==
    IF line.tag = "SIGNAL" THEN [sd EXCEPT !.signal = line.val]
    ELSE IF line.tag = "CONFIDENCE"
         THEN [sd EXCEPT !.confidence =
                  IF ParseInt(line.val).ok THEN ParseInt(line.val).n ELSE 50]
    ELSE IF line.tag = "REASONING" THEN [sd EXCEPT !.reasoning = <<line.val>>]
    ELSE sd

RECURSIVE ParseFrom(_, _, _)
ParseFrom(sd, text, k) ==
    IF k > Len(text) THEN sd ELSE ParseFrom(ParseLine(sd, text[k]), text, k + 1)

\* runtime.py lines 224-245, _parse_signal_response
parse_signal_response(text) == ParseFrom(ParseDefault, text, 1)

\* The configured actions, in the order of the configuration.
ActionNames == <<"generate_signal", "send_alert">>

\* lines 255-260; the timestamp is left out
Context(sg, dt, n) == [signal |-> sg, inputs |-> dt, cycle |-> n]

\* How a call of execute ends: actions/*/plugin.py return a dict, or raise.
Outcomes == {"returned", "raised"}

\* __init__, lines 42-51: plugins loaded or None, LLM connector or None.
InitAgent ==
    /\ RsiIdle
    /\ NoCallers
    /\ NoFetch
    /\ prec = 0
    /\ inputs \in [{InputNames[k] : k \in 1..Len(InputNames)} -> {"plugin", "None"}]
    /\ llm \in {"connector", "None"}
    /\ running = FALSE
    /\ cycle_count = 0
    /\ last_signal = None
    /\ apc = "constructed"
    /\ pending = <<>>
    /\ input_data = <<>>
    /\ asked = FALSE
    /\ reply = "none"
    /\ response = <<>>
    /\ signal = None
    /\ stop_called = FALSE
    /\ started_after_stop = 0
    /\ actions \in [{ActionNames[k] : k \in 1..Len(ActionNames)} -> {"plugin", "None"}]
    /\ todo = <<>>
    /\ context = None
    /\ executed = <<>>
    /\ count_before = 0

\* run() is called; line 301 has not run yet.
CallRun ==
    /\ apc = "constructed"
    /\ apc' = "run"
    /\ UNCHANGED <<inputs, llm, running, cycle_count, last_signal, pending,
                   input_data, asked, reply, response, signal, stop_called,
                   started_after_stop, action_vars, not_agent>>

\* line 301
RunStart ==
    /\ apc = "run"
    /\ running' = TRUE
    /\ apc' = "while"
    /\ UNCHANGED <<inputs, llm, cycle_count, last_signal, pending,
                   input_data, asked, reply, response, signal, stop_called,
                   started_after_stop, action_vars, not_agent>>

\* line 308: while self.running
LoopTest ==
    /\ apc = "while"
    /\ \/ /\ running
          /\ cycle_count < MaxCycles
          /\ apc' = "cycle"
          /\ started_after_stop' = IF stop_called THEN started_after_stop + 1
                                   ELSE started_after_stop
       \/ /\ ~running
          /\ apc' = "returned"
          /\ UNCHANGED started_after_stop
    /\ UNCHANGED <<inputs, llm, running, cycle_count, last_signal, pending,
                   input_data, asked, reply, response, signal, stop_called,
                   action_vars, not_agent>>

\* run_cycle lines 275-283 and _collect_inputs line 128
BeginCycle ==
    /\ apc = "cycle"
    /\ cycle_count' = cycle_count + 1
    /\ input_data' = EmptyMap
    /\ pending' = InputNames
    /\ asked' = FALSE
    /\ reply' = "none"
    /\ response' = <<>>
    /\ signal' = None
    /\ count_before' = cycle_count
    /\ todo' = <<>>
    /\ context' = None
    /\ executed' = <<>>
    /\ apc' = "collect"
    /\ UNCHANGED <<inputs, llm, running, last_signal, stop_called,
                   started_after_stop, actions, not_agent>>

\* _collect_inputs lines 131-132: a plugin that failed to load is skipped
CollectSkip ==
    /\ apc = "collect"
    /\ pending # <<>>
    /\ inputs[Head(pending)] = "None"
    /\ pending' = Tail(pending)
    /\ UNCHANGED <<inputs, llm, running, cycle_count, last_signal, apc,
                   input_data, asked, reply, response, signal, stop_called,
                   started_after_stop, action_vars, not_agent>>

\* Mutant of CollectFetch: an exception of fetch is recorded and ends the
\* loop over the inputs.
CollectFetchAborts ==
    /\ apc = "collect"
    /\ pending # <<>>
    /\ inputs[Head(pending)] = "plugin"
    /\ \/ /\ \E dt \in FetchReturns(Head(pending)) :
                input_data' = Put(input_data, Head(pending), dt)
          /\ pending' = Tail(pending)
       \/ /\ \E msg \in FetchRaises(Head(pending)) :
                input_data' = Put(input_data, Head(pending), ErrorDict(msg))
          /\ pending' = <<>>
    /\ UNCHANGED <<inputs, llm, running, cycle_count, last_signal, apc,
                   asked, reply, response, signal, stop_called,
                   started_after_stop, action_vars, not_agent>>

\* _collect_inputs lines 134-141: fetch returns a dict, or raises
CollectFetch ==
    /\ apc = "collect"
    /\ pending # <<>>
    /\ inputs[Head(pending)] = "plugin"
    /\ \/ \E dt \in FetchReturns(Head(pending)) :
             input_data' = Put(input_data, Head(pending), dt)
       \/ \E msg \in FetchRaises(Head(pending)) :
             input_data' = Put(input_data, Head(pending), ErrorDict(msg))
    /\ pending' = Tail(pending)
    /\ UNCHANGED <<inputs, llm, running, cycle_count, last_signal, apc,
                   asked, reply, response, signal, stop_called,
                   started_after_stop, action_vars, not_agent>>

\* _collect_inputs line 143, run_cycle line 288
CollectDone ==
    /\ apc = "collect"
    /\ pending = <<>>
    /\ apc' = "generate"
    /\ UNCHANGED <<inputs, llm, running, cycle_count, last_signal, pending,
                   input_data, asked, reply, response, signal, stop_called,
                   started_after_stop, action_vars, not_agent>>

\* _generate_signal lines 155-160
GenerateNoLlm ==
    /\ apc = "generate"
    /\ llm = "None"
    /\ signal' = LlmNotAvailable
    /\ apc' = "store"
    /\ UNCHANGED <<inputs, llm, running, cycle_count, last_signal, pending,
                   input_data, asked, reply, response, stop_called,
                   started_after_stop, action_vars, not_agent>>

\* _generate_signal lines 163-171
GenerateInsufficient ==
    /\ apc = "generate"
    /\ llm # "None"
    /\ \/ HasError(Get(input_data, "bitcoin_price"))
       \/ HasError(Get(input_data, "news_sentiment"))
    /\ signal' = InsufficientInputs
    /\ apc' = "store"
    /\ UNCHANGED <<inputs, llm, running, cycle_count, last_signal, pending,
                   input_data, asked, reply, response, stop_called,
                   started_after_stop, action_vars, not_agent>>

\* _generate_signal lines 173-177: the prompt is built (every field read
\* with a default) and llm.generate is called
GenerateAsk ==
    /\ apc = "generate"
    /\ llm # "None"
    /\ ~HasError(Get(input_data, "bitcoin_price"))
    /\ ~HasError(Get(input_data, "news_sentiment"))
    /\ asked' = TRUE
    /\ apc' = "llm"
    /\ UNCHANGED <<inputs, llm, running, cycle_count, last_signal, pending,
                   input_data, reply, response, signal, stop_called,
                   started_after_stop, action_vars, not_agent>>

\* The request answers with a text: llm_connector.py lines 85-115 and 194,
\* runtime.py lines 177-180.
LlmAnswers ==
    /\ apc = "llm"
    /\ \E text \in Responses :
          /\ response' = text
          /\ signal' = parse_signal_response(text)
    /\ reply' = "text"
    /\ apc' = "store"
    /\ UNCHANGED <<inputs, llm, running, cycle_count, last_signal, pending,
                   input_data, asked, stop_called, started_after_stop,
                   action_vars, not_agent>>

\* The request fails: chat_completion catches the exception and answers
\* with an empty content (llm_connector.py lines 116-121), generate returns
\* '' (line 194), which is parsed like any text (runtime.py line 178).
LlmRequestFails ==
    /\ apc = "llm"
    /\ response' = EmptyText
    /\ signal' = parse_signal_response(EmptyText)
    /\ reply' = "request_failed"
    /\ apc' = "store"
    /\ UNCHANGED <<inputs, llm, running, cycle_count, last_signal, pending,
                   input_data, asked, stop_called, started_after_stop,
                   action_vars, not_agent>>

\* generate itself raises (no choice in the answer: IndexError at
\* llm_connector.py line 194) or returns None (a content of null, then
\* AttributeError at runtime.py line 226): runtime.py lines 181-187.
LlmRaises ==
    /\ apc = "llm"
    /\ \E kind \in {"no_choices", "null_content"} :
          /\ reply' = kind
          /\ signal' = LlmError(kind)
    /\ response' = <<>>
    /\ apc' = "store"
    /\ UNCHANGED <<inputs, llm, running, cycle_count, last_signal, pending,
                   input_data, asked, stop_called, started_after_stop,
                   action_vars, not_agent>>

\* Mutant of StoreSignal: the signal is not stored before the actions run.
StoreSignalSkipped ==
    /\ apc = "store"
    /\ apc' = "execute"
    /\ UNCHANGED <<inputs, llm, running, cycle_count, last_signal, pending,
                   input_data, asked, reply, response, signal, stop_called,
                   started_after_stop, action_vars, not_agent>>

\* run_cycle line 289
StoreSignal ==
    /\ apc = "store"
    /\ last_signal' = signal
    /\ apc' = "execute"
    /\ UNCHANGED <<inputs, llm, running, cycle_count, pending, input_data,
                   asked, reply, response, signal, stop_called,
                   started_after_stop, action_vars, not_agent>>

\* run_cycle line 294 and _execute_actions lines 255-260: the context is
\* built from the signal, the input data and self.cycle_count
ExecuteActions ==
    /\ apc = "execute"
    /\ context' = Context(signal, input_data, cycle_count)
    /\ todo' = ActionNames
    /\ apc' = "act"
    /\ UNCHANGED <<inputs, llm, running, cycle_count, last_signal, pending,
                   input_data, asked, reply, response, signal, stop_called,
                   started_after_stop, actions, executed, count_before,
                   not_agent>>

\* _execute_actions lines 263-264: an action that failed to load is skipped
ActionSkip ==
    /\ apc = "act"
    /\ todo # <<>>
    /\ actions[Head(todo)] = "None"
    /\ todo' = Tail(todo)
    /\ UNCHANGED <<inputs, llm, running, cycle_count, last_signal, apc,
                   pending, input_data, asked, reply, response, signal,
                   stop_called, started_after_stop, actions, context,
                   executed, count_before, not_agent>>

\* Mutant of ActionExecute: an exception of execute ends the loop over the
\* actions.
ActionExecuteAborts ==
    /\ apc = "act"
    /\ todo # <<>>
    /\ actions[Head(todo)] = "plugin"
    /\ \E out \in Outcomes :
          /\ executed' = Append(executed,
                 [name |-> Head(todo), context |-> context, outcome |-> out])
          /\ todo' = IF out = "raised" THEN <<>> ELSE Tail(todo)
    /\ UNCHANGED <<inputs, llm, running, cycle_count, last_signal, apc,
                   pending, input_data, asked, reply, response, signal,
                   stop_called, started_after_stop, actions, context,
                   count_before, not_agent>>

\* _execute_actions lines 266-271: execute(context) returns, or raises and
\* the exception is caught; the actions of the repository read the context
\* and assign nothing in it (actions/generate_signal/plugin.py lines 53-73,
\* actions/send_alert/plugin.py lines 45-76)
ActionExecute ==
    /\ apc = "act"
    /\ todo # <<>>
    /\ actions[Head(todo)] = "plugin"
    /\ \E out \in Outcomes :
          executed' = Append(executed,
              [name |-> Head(todo), context |-> context, outcome |-> out])
    /\ todo' = Tail(todo)
    /\ UNCHANGED <<inputs, llm, running, cycle_count, last_signal, apc,
                   pending, input_data, asked, reply, response, signal,
                   stop_called, started_after_stop, actions, context,
                   count_before, not_agent>>

\* _execute_actions returns, run_cycle lines 295-297
ActionsDone ==
    /\ apc = "act"
    /\ todo = <<>>
    /\ apc' = "sleep"
    /\ UNCHANGED <<inputs, llm, running, cycle_count, last_signal, pending,
                   input_data, asked, reply, response, signal, stop_called,
                   started_after_stop, action_vars, not_agent>>

\* line 310
Sleep ==
    /\ apc = "sleep"
    /\ apc' = "while"
    /\ UNCHANGED <<inputs, llm, running, cycle_count, last_signal, pending,
                   input_data, asked, reply, response, signal, stop_called,
                   started_after_stop, action_vars, not_agent>>

\* lines 311-313: Ctrl+C while the loop runs
Interrupt ==
    /\ apc \in {"while", "cycle", "collect", "generate", "llm", "store",
                "execute", "act", "sleep"}
    /\ running' = FALSE
    /\ apc' = "returned"
    /\ UNCHANGED <<inputs, llm, cycle_count, last_signal, pending,
                   input_data, asked, reply, response, signal, stop_called,
                   started_after_stop, action_vars, not_agent>>

\* stop(), lines 320-322, from another thread, at any moment
Stop ==
    /\ ~stop_called
    /\ running' = FALSE
    /\ stop_called' = TRUE
    /\ UNCHANGED <<inputs, llm, cycle_count, last_signal, apc, pending,
                   input_data, asked, reply, response, signal,
                   started_after_stop, action_vars, not_agent>>

NextAgent ==
    \/ CallRun
    \/ RunStart
    \/ LoopTest
    \/ BeginCycle
    \/ CollectSkip
    \/ CollectFetch
    \/ CollectDone
    \/ GenerateNoLlm
    \/ GenerateInsufficient
    \/ GenerateAsk
    \/ LlmAnswers
    \/ LlmRequestFails
    \/ LlmRaises
    \/ StoreSignal
    \/ ExecuteActions
    \/ ActionSkip
    \/ ActionExecute
    \/ ActionsDone
    \/ Sleep
    \/ Interrupt
    \/ Stop

SpecAgent == InitAgent /\ [][NextAgent]_vars

(***************************************************************************)
(* C18 (as stated): stop() stops the agent loop.  Once stop() has been     *)
(* called, at any point relative to run(), also just before run() begins   *)
(* its loop, run() starts no cycle any more (the test of line 308 made     *)
(* after stop() returned never lets a cycle begin), and when run() has     *)
(* returned running is False.  Refuted: line 301 sets running to True      *)
(* after a stop() that came first.                                         *)
(***************************************************************************)
C18_StopStops ==
    /\ stop_called => started_after_stop = 0
    /\ apc = "returned" => ~running

\* stop() was called before line 301 ran; run() is in its second cycle
\* since, with running still True.
C18_Witness ==
    /\ stop_called
    /\ running
    /\ started_after_stop = 2
    /\ apc = "collect"

\* An input delivered data without error in this cycle.
Delivered(name) == name \in DOMAIN input_data /\ ~HasError(input_data[name])

BothDelivered == Delivered("bitcoin_price") /\ Delivered("news_sentiment")

SignalMade == apc \in {"store", "execute", "act", "sleep"}

(***************************************************************************)
(* C19 (as stated): a cycle asks the LLM only when both the bitcoin_price  *)
(* and the news_sentiment input delivered data without error; in every     *)
(* other case (no LLM, an input raised, an input plugin failed to load, no *)
(* articles) the signal is HOLD with confidence 0 and the LLM was not      *)
(* called.  Refuted: a plugin that failed to load leaves no entry, and the *)
(* missing entry is read as an empty dict without 'error'.                 *)
(***************************************************************************)
C19_LlmOnlyWithData ==
    /\ asked => BothDelivered
    /\ (SignalMade /\ ~(llm # "None" /\ BothDelivered))
          => (signal.signal = "HOLD" /\ signal.confidence = 0 /\ ~asked)

\* The bitcoin_price plugin failed to load, and the LLM's answer to a
\* prompt built from defaults became the signal of the cycle.
C19_Witness ==
    /\ inputs["bitcoin_price"] = "None"
    /\ apc = "execute"
    /\ asked /\ reply = "text"
    /\ last_signal.signal = "BUY" /\ last_signal.confidence = 85

(***************************************************************************)
(* C20 (as stated): when the LLM request fails, the signal of the cycle is *)
(* HOLD with confidence 0 and a reasoning that starts with 'LLM error:'.   *)
(* Refuted: the connector swallows the failure and returns an empty text,  *)
(* which parses to the defaults HOLD, 50, 'Unable to parse LLM response'.  *)
(***************************************************************************)
C20_LlmFailureIsHold ==
    (SignalMade /\ reply = "request_failed")
        => /\ signal.signal = "HOLD"
           /\ signal.confidence = 0
           /\ signal.reasoning[1] = "LLM error: "

\* The request failed and the stored signal carries confidence 50.
C20_Witness ==
    /\ apc = "execute"
    /\ reply = "request_failed"
    /\ last_signal = ParseDefault

\* The recommendations the prompt asks for, runtime.py line 213.
Recommendations == {"BUY", "SELL", "HOLD", "STRONG_BUY", "STRONG_SELL"}

(***************************************************************************)
(* C21 (as stated): whatever the LLM answers, the 'signal' field of the    *)
(* signal of the cycle, and of last_signal, is one of BUY, SELL, HOLD,     *)
(* STRONG_BUY, STRONG_SELL.  Refuted: the text after 'SIGNAL:' is stored   *)
(* as it is.                                                               *)
(***************************************************************************)
C21_SignalIsRecommendation ==
    /\ SignalMade => signal.signal \in Recommendations
    /\ last_signal # None => last_signal.signal \in Recommendations

\* The LLM answered 'SIGNAL: MAYBE' and that became last_signal.
C21_Witness ==
    /\ apc = "execute"
    /\ reply = "text"
    /\ \E k \in 1..Len(response) : response[k] = [tag |-> "SIGNAL", val |-> "MAYBE"]
    /\ last_signal.signal = "MAYBE"

(***************************************************************************)
(* C22 (as stated): whatever the LLM answers, the 'confidence' field of    *)
(* the signal of the cycle is an integer in 0..100.  Refuted: int() of the *)
(* text after 'CONFIDENCE:' is stored without a range check.               *)
(***************************************************************************)
C22_ConfidenceInRange == SignalMade => signal.confidence \in 0..100

\* The LLM answered 'CONFIDENCE: 150' and the signal carries 150.
C22_Witness ==
    /\ apc = "execute"
    /\ reply = "text"
    /\ \E k \in 1..Len(response) : response[k] = [tag |-> "CONFIDENCE", val |-> "150"]
    /\ last_signal.confidence = 150

\* The lines of a text that begin with a field's name, and the text after
\* the colon of the last of them.
LinesOf(text, tag) == {k \in 1..Len(text) : text[k].tag = tag}
LastLineOf(text, tag) ==
    text[CHOOSE k \in LinesOf(text, tag) : \A j \in LinesOf(text, tag) : j <= k].val

IntegerTexts == {"85", "150"}
IntegerOf(text) == IF text = "85" THEN 85 ELSE 150

(***************************************************************************)
(* C23: _parse_signal_response returns, for every text, a dict with the    *)
(* three keys signal, confidence, reasoning.  Each field is decided by the *)
(* lines of its own name only: with no such line it keeps its default      *)
(* ('HOLD', 50, 'Unable to parse LLM response'); otherwise the last such   *)
(* line decides, and a CONFIDENCE text that is not an integer gives 50.    *)
(***************************************************************************)
C23_ParseTotalLastWins ==
    (SignalMade /\ reply = "text") =>
        /\ DOMAIN signal = {"signal", "confidence", "reasoning"}
        /\ signal.signal =
              IF LinesOf(response, "SIGNAL") = {} THEN "HOLD"
              ELSE LastLineOf(response, "SIGNAL")
        /\ signal.confidence =
              IF LinesOf(response, "CONFIDENCE") = {} THEN 50
              ELSE IF LastLineOf(response, "CONFIDENCE") \in IntegerTexts
                   THEN IntegerOf(LastLineOf(response, "CONFIDENCE"))
                   ELSE 50
        /\ signal.reasoning =
              IF LinesOf(response, "REASONING") = {}
              THEN <<"Unable to parse LLM response">>
              ELSE <<LastLineOf(response, "REASONING")>>

\* 'CONFIDENCE: 85' followed by 'CONFIDENCE: high': the last line wins and
\* is not an integer, signal and reasoning keep their defaults.
C23_Witness ==
    /\ apc = "store"
    /\ reply = "text"
    /\ response = <<[tag |-> "CONFIDENCE", val |-> "85"],
                    [tag |-> "CONFIDENCE", val |-> "high"]>>
    /\ signal = ParseDefault

\* The inputs of the configuration, those the loop of _collect_inputs has
\* not visited yet, and the positions of run_cycle from _collect_inputs on.
InputSet == {InputNames[k] : k \in 1..Len(InputNames)}
StillPending == {pending[k] : k \in 1..Len(pending)}
Collecting == apc = "collect"
Collected == apc \in {"generate", "llm", "store", "execute", "act", "sleep"}

(***************************************************************************)
(* C24: _collect_inputs isolates input failures.  Every input the loop has *)
(* visited has an entry under its own name exactly when its plugin was     *)
(* loaded; the entry is what fetch returned or {'error': message} of the   *)
(* exception fetch raised; an exception of one fetch does not end the      *)
(* loop, so that once _collect_inputs has returned every loaded input has  *)
(* its entry and no other name has one.                                    *)
(***************************************************************************)
C24_InputFailuresIsolated ==
    (Collecting \/ Collected) =>
        /\ Collected => pending = <<>>
        /\ DOMAIN input_data \subseteq InputSet
        /\ \A name \in InputSet \ StillPending :
              /\ inputs[name] = "None" <=> name \notin DOMAIN input_data
              /\ name \in DOMAIN input_data =>
                    input_data[name] \in
                        FetchReturns(name)
                            \cup {ErrorDict(msg) : msg \in FetchRaises(name)}

\* The fetch of bitcoin_price raised, news_sentiment was fetched all the
\* same, and _collect_inputs has returned.
C24_Witness ==
    /\ apc = "generate"
    /\ DOMAIN input_data = InputSet
    /\ input_data["bitcoin_price"] = ErrorDict("IndexError")
    /\ input_data["news_sentiment"] = NewsData

\* The positions inside run_cycle.
InCycle == apc \in {"collect", "generate", "llm", "store", "execute", "act", "sleep"}

(***************************************************************************)
(* C25: every run_cycle increments cycle_count by exactly one and takes    *)
(* its steps in the order collect inputs, generate signal, execute         *)
(* actions: no signal exists while inputs are collected, the collection is *)
(* over when the signal is generated, and no action has run before         *)
(* last_signal is the generated signal.  The context handed to every       *)
(* action carries that signal, the collected input data and                *)
(* cycle == cycle_count.                                                   *)
(***************************************************************************)
C25_CycleOrder ==
    /\ InCycle => cycle_count = count_before + 1
    /\ apc = "collect" => signal = None
    /\ apc \in {"generate", "llm"} => pending = <<>> /\ signal = None
    /\ apc \in {"collect", "generate", "llm", "store"} =>
          context = None /\ executed = <<>>
    /\ apc \in {"execute", "act", "sleep"} =>
          /\ last_signal = signal
          /\ pending = <<>>
    /\ apc = "execute" => executed = <<>>
    /\ \A k \in 1..Len(executed) :
          executed[k].context = Context(last_signal, input_data, cycle_count)

\* Second cycle: both actions were called with the signal BUY the LLM gave,
\* the data of both inputs and cycle 2.
C25_Witness ==
    /\ apc = "sleep"
    /\ cycle_count = 2
    /\ Len(executed) = 2
    /\ executed[2].context.cycle = 2
    /\ executed[2].context.signal.signal = "BUY"
    /\ executed[2].context.inputs = [bitcoin_price |-> BtcData, news_sentiment |-> NewsData]

\* The actions the loop of _execute_actions has visited, in order, and the
\* loaded ones among them.
VisitedActions == SubSeq(ActionNames, 1, Len(ActionNames) - Len(todo))
IsLoaded(name) == actions[name] = "plugin"
ExecutedNames == [k \in 1..Len(executed) |-> executed[k].name]

(***************************************************************************)
(* C26: _execute_actions isolates action failures.  The actions that were  *)
(* called are exactly the loaded ones among those the loop has visited, in *)
(* the order of the configuration, whether an earlier execute raised or    *)
(* not, and each got the same context; the loop visits every action and    *)
(* the cycle goes on to its end; last_signal and cycle_count are what they *)
(* were when the context was built.                                        *)
(***************************************************************************)
C26_ActionFailuresIsolated ==
    apc \in {"act", "sleep"} =>
        /\ ExecutedNames = SelectSeq(VisitedActions, IsLoaded)
        /\ \A k \in 1..Len(executed) : executed[k].context = context
        /\ apc = "sleep" => todo = <<>>
        /\ last_signal = context.signal
        /\ cycle_count = context.cycle

\* generate_signal raised, send_alert was called all the same with the same
\* context, and the cycle came to its end.
C26_Witness ==
    /\ apc = "sleep"
    /\ Len(executed) = 2
    /\ executed[1].name = "generate_signal" /\ executed[1].outcome = "raised"
    /\ executed[2].name = "send_alert" /\ executed[2].outcome = "returned"
    /\ executed[2].context = executed[1].context

\* fetch is past the request for the candles (plugin.py lines 61-64).
HistoryFetched ==
    \/ fpc \in {"rsi", "calc", "interpret", "return", "returned"}
    \/ fpc = "raised" /\ RsiCalled

\* The request failed (an empty list) or brought fewer than rsi_period + 1
\* candles.
TooFewCandles == historical = <<>> \/ Len(historical) < rsi_period + 1

(***************************************************************************)
(* C27 (as stated): whenever the request for the candles failed or brought *)
(* fewer than rsi_period + 1 candles, fetch is not left by an exception of *)
(* the RSI computation, and the payload it returns has rsi 50.0 and        *)
(* rsi_signal 'neutral', for every configured rsi_period.  Refuted: with   *)
(* an rsi_period of 0 or less the test of line 67 passes for the empty     *)
(* list and calculate_rsi raises IndexError on it.                         *)
(***************************************************************************)
C27_RsiAlwaysUsable ==
    (HistoryFetched /\ TooFewCandles) =>
        /\ ~FetchRaised
        /\ FetchReturned =>
              payload.rsi = Num(50) /\ payload.rsi_signal = "neutral"

\* rsi_period 0, the request for the candles failed, and fetch was left by
\* the IndexError of calculate_rsi after a price had been fetched.
C27_Witness ==
    /\ rsi_period = 0
    /\ historical = <<>>
    /\ price_data # None
    /\ FetchRaised
    /\ fetch_exc = "IndexError"

====
